---- MODULE Spec2Model ----
(***************************************************************************)
(* A model of FreeNASISCSIDriver (driver/ixsystems/iscsi.py): the          *)
(* admission check done before a volume is attached, and the volume        *)
(* lifecycle calls the driver turns into backend calls.                    *)
(*                                                                         *)
(* Python values are modelled structurally: a string is a sequence of      *)
(* one-character tokens, None is a tagged value, a list is a sequence.     *)
(***************************************************************************)
EXTENDS Integers, Sequences, FiniteSets, TLC

(***************************************************************************)
(* Bounds of the model.                                                    *)
(***************************************************************************)
MaxAttached == 5       \* attached volumes of this backend in the database
MaxTunables == 2       \* entries of the tunable list
MaxMessages == 2       \* notifications kept by the message channel
MaxSize == 2           \* volume sizes are 1..MaxSize
NumThreads == 2        \* threads that call get_volume_stats

(***************************************************************************)
(* Python strings and None.                                                *)
(***************************************************************************)
PyStr(s) == [t |-> "str", s |-> s]
PyNone == [t |-> "None", s |-> <<>>]

DecimalDigits == <<"0", "1", "2", "3", "4", "5", "6", "7", "8", "9">>

IsDecimalChar(c) == \E i \in DOMAIN DecimalDigits : DecimalDigits[i] = c

\* The characters of the model for which str.isnumeric() is true: the
\* decimal digits and SUPERSCRIPT TWO (U+00B2), a numeric character that is
\* not a decimal digit.
IsNumericChar(c) == IsDecimalChar(c) \/ c = "sup2"

DigitVal(c) == (CHOOSE i \in DOMAIN DecimalDigits : DecimalDigits[i] = c) - 1

\* str(x)
str(v) == IF v.t = "None" THEN <<"N", "o", "n", "e">> ELSE v.s

\* str.isnumeric(): non-empty and every character numeric
isnumeric(s) == Len(s) > 0 /\ \A i \in DOMAIN s : IsNumericChar(s[i])

\* int(x) succeeds on a non-empty string of decimal digits and raises
\* ValueError on any other string of the model.
int_raises(v) == v.t = "None" \/ Len(v.s) = 0 \/ \E i \in DOMAIN v.s : ~IsDecimalChar(v.s[i])

RECURSIVE int_digits(_, _)
int_digits(s, n) ==
    IF n = 0 THEN 0 ELSE 10 * int_digits(s, n - 1) + DigitVal(s[n])

int(v) == int_digits(v.s, Len(v.s))

\* str.find(sub): the 0-based offset of the first occurrence, -1 if none.
\* A host string is a sequence of tokens; the offset of a token is the
\* number of characters before it, every token before it being non-empty.
find(s, sub) ==
    IF \E i \in DOMAIN s : s[i] = sub
    THEN (CHOOSE i \in DOMAIN s : s[i] = sub /\ \A j \in 1..(i - 1) : s[j] # sub) - 1
    ELSE -1

min(a, b) == IF a <= b THEN a ELSE b

(***************************************************************************)
(* State.                                                                  *)
(***************************************************************************)
VARIABLES
    version,      \* parse_truenas_version(common.system_version())[1]
    confLoaded,   \* len(cinderapi.CONF.list_all_sections()) > 0
    tunable,      \* what common.tunable() returns: a list of entries
    dbvols,       \* what cinderapi.volume_get_all() returns
    messages,     \* notifications created through cinder's message API
    conn,         \* the last initialize_connection call and its outcome
    cacheEnabled, \* configuration.safe_get('image_volume_cache_enabled')
    storage,      \* backend: storage object name -> size
    targets,      \* backend: export targets, <<target name, backing name>>
    snaps,        \* backend: snapshots, <<snapshot name, parent name>>
    clones,       \* backend: unpromoted clones, <<name, snapshot, parent>>
    last,         \* the last lifecycle call and its outcome
    stats,        \* self.stats: the cached capacity snapshot
    pool,         \* what common.update_volume_stats() returns when asked now
    thr,          \* the get_volume_stats call of each thread and its position
    reads,        \* history: the results of the backend reads made so far
    lastWrite     \* history: the value of the latest assignment to self.stats

admVars == <<version, confLoaded, tunable, dbvols, messages, conn>>
lifeVars == <<cacheEnabled, storage, targets, snaps, clones, last>>
statVars == <<stats, pool, thr, reads, lastWrite>>
vars == <<version, confLoaded, tunable, dbvols, messages, conn,
          cacheEnabled, storage, targets, snaps, clones, last,
          stats, pool, thr, reads, lastWrite>>

(***************************************************************************)
(* Admission check: FreeNASISCSIDriver.check_connection.                   *)
(***************************************************************************)
MAX_LUNS == "kern.cam.ctl.max_luns"
MAX_PORTS == "kern.cam.ctl.max_ports"

DefaultMaxPorts == 256
DefaultMaxLuns == 1024

\* Every version enforced.
EnforcedVersionsAll == {"11.3", "12.0", "13.0"}

EnforcedVersions == {"12.0", "13.0"}

\* One pass of the loop body over a tunable entry. acc holds the two
\* limits and whether int() has raised.
tunable_item(acc, item) ==
    LET lunsHit == item.enabled /\ item.var = MAX_LUNS /\ isnumeric(str(item.value))
        portsHit == item.enabled /\ item.var = MAX_PORTS /\ isnumeric(str(item.value))
    IN  IF lunsHit /\ int_raises(item.value)
        THEN [acc EXCEPT !.raised = TRUE]
        ELSE LET a1 == IF lunsHit THEN [acc EXCEPT !.max_luns = int(item.value)] ELSE acc
             IN  IF portsHit /\ int_raises(item.value)
                 THEN [a1 EXCEPT !.raised = TRUE]
                 ELSE IF portsHit THEN [a1 EXCEPT !.max_ports = int(item.value)] ELSE a1

RECURSIVE tunable_loop(_, _, _)
tunable_loop(tun, i, acc) ==
    IF i > Len(tun) \/ acc.raised THEN acc
    ELSE tunable_loop(tun, i + 1, tunable_item(acc, tun[i]))

\* The limits after the loop, from the defaults of line 156.
tunable_limits(tun) ==
    tunable_loop(tun, 1, [max_ports |-> DefaultMaxPorts, max_luns |-> DefaultMaxLuns,
                          raised |-> FALSE])

attach_max_allow(tun) ==
    LET l == tunable_limits(tun) IN min(l.max_luns, l.max_ports)

\* len([vol for vol in vols if vol.host and vol.host.find(..) > 0
\*      and vol.attach_status == 'attached'])
RECURSIVE attached_truenas_vol_count(_)
attached_truenas_vol_count(vols) ==
    IF Len(vols) = 0 THEN 0
    ELSE LET vol == Head(vols)
             hit == /\ vol.host.t = "str" /\ Len(vol.host.s) > 0
                    /\ find(vol.host.s, "@ixsystems-iscsi#") > 0
                    /\ vol.attach_status = "attached"
         IN  (IF hit THEN 1 ELSE 0) + attached_truenas_vol_count(Tail(vols))

\* The outcome of check_connection: "True", "False", or the exception
\* that leaves it.
check_connection(ver, tun, loaded, vols) ==
    IF ver \in EnforcedVersions
    THEN IF tunable_limits(tun).raised THEN "ValueError"
         ELSE IF loaded /\ attached_truenas_vol_count(vols) >= attach_max_allow(tun)
              THEN "False"
              ELSE "True"
    ELSE "True"

\* The backend and database reads check_connection makes, in order.
check_reads(ver, tun, loaded) ==
    <<"system_version">>
    \o (IF ver \in EnforcedVersions
        THEN <<"tunable", "tunable">>
             \o (IF ~tunable_limits(tun).raised /\ loaded
                 THEN <<"volume_get_all">> ELSE <<>>)
        ELSE <<>>)

\* The tunables of the call before, kept by the driver.
tunable_read_kept == IF conn.tunable # <<>> THEN conn.tunable[1] ELSE tunable

\* tunable = self.common.tunable(): the list the appliance holds now.
tunable_read == tunable

(***************************************************************************)
(* Naming (ix_utils): a logical name 'volume-<id>' is <<"volume", id>>. A  *)
(* resolver yields the backend names of the logical names of its own kind  *)
(* and empty names for any other.                                          *)
(***************************************************************************)
NoName == <<>>

ixsystems_iqn_prefix == <<"iqn.2005-10.org.freenas.ctl", ":">>

generate_freenas_volume_name(name, iqn_prefix) ==
    IF name[1] = "volume"
    THEN [name |-> <<"volume", name[2]>>, target |-> <<"target", name[2]>>,
          iqn |-> <<iqn_prefix, <<"target", name[2]>> >>]
    ELSE [name |-> NoName, target |-> NoName, iqn |-> NoName]

generate_freenas_snapshot_name(name, iqn_prefix) ==
    IF name[1] \in {"snapshot", "name"}
    THEN [name |-> <<"snap", name[2]>>, iqn |-> <<iqn_prefix, <<"snap", name[2]>> >>]
    ELSE [name |-> NoName, iqn |-> NoName]

get_iscsi_portal(hostname, port) == <<hostname, ":", port>>

ixsystems_server_hostname == "truenas.example"
ixsystems_server_iscsi_port == "3260"

(***************************************************************************)
(* FreeNASISCSIDriver.initialize_connection                                *)
(***************************************************************************)
NoCall ==
    [volume |-> <<>>, check |-> "", tunable |-> <<>>, reads |-> <<>>, events |-> <<>>,
     raised |-> "", ret |-> <<>>]

\* The notification left in the admin context's own project.
attach_message_admin_project(volume) ==
    [action |-> "ATTACH_VOLUME", project_id |-> "admin",
     resource_uuid |-> volume.id, exception |-> "FreeNASApiError",
     detail |-> "ATTACH_ERROR"]

\* message_api.create(ctx, action=..., resource_uuid=..., exception=..., detail=...)
attach_message(volume) ==
    [action |-> "ATTACH_VOLUME", project_id |-> volume.project_id,
     resource_uuid |-> volume.id, exception |-> "FreeNASApiError",
     detail |-> "ATTACH_ERROR"]

\* The connection properties of lines 201-220.
connection_properties(volume) ==
    LET fv == generate_freenas_volume_name(volume.name, ixsystems_iqn_prefix)
        fs == generate_freenas_snapshot_name(volume.name, ixsystems_iqn_prefix)
        freenas_volume_iqn == IF fv.name = NoName THEN fs.iqn ELSE fv.iqn
    IN  [driver_volume_type |-> "iscsi",
         data |-> [target_discovered |-> FALSE,
                   target_portal |-> get_iscsi_portal(ixsystems_server_hostname,
                                                      ixsystems_server_iscsi_port),
                   target_iqn |-> freenas_volume_iqn,
                   volume_id |-> volume.id]]

\* The collaborator calls of lines 201-209, in order.
resolution_events(volume) ==
    IF generate_freenas_volume_name(volume.name, ixsystems_iqn_prefix).name = NoName
    THEN <<"generate_freenas_volume_name", "generate_freenas_snapshot_name">>
    ELSE <<"generate_freenas_volume_name">>

initialize_connection(volume) ==
    LET tun == tunable_read
        check == check_connection(version, tun, confLoaded, dbvols)
        call == [volume |-> <<volume>>, check |-> check,
                 tunable |-> IF version \in EnforcedVersions THEN <<tun>> ELSE <<>>,
                 reads |-> check_reads(version, tun, confLoaded),
                 events |-> <<"check_connection">>, raised |-> "", ret |-> <<>>]
    IN  /\ Len(messages) < MaxMessages
        /\ IF check = "False"
           THEN /\ messages' = Append(messages, attach_message(volume))
                /\ conn' = [call EXCEPT
                              !.events = <<"check_connection", "message_api.create", "raise">>,
                              !.raised = "FreeNASApiError"]
           ELSE IF check = "ValueError"
           THEN /\ messages' = messages
                /\ conn' = [call EXCEPT !.raised = "ValueError"]
           ELSE /\ messages' = messages
                /\ conn' = [call EXCEPT
                              !.events = <<"check_connection">> \o resolution_events(volume),
                              !.ret = <<connection_properties(volume)>>]
        /\ UNCHANGED <<version, confLoaded, tunable, dbvols>>
        /\ UNCHANGED lifeVars
        /\ UNCHANGED statVars

\* The administrator changes the tunables of the appliance.
tunable_changes(new) ==
    /\ new # tunable
    /\ tunable' = new
    /\ UNCHANGED <<version, confLoaded, dbvols, messages, conn>>
    /\ UNCHANGED lifeVars
    /\ UNCHANGED statVars

(***************************************************************************)
(* Backend gateway (common.TrueNASCommon): every call either succeeds with *)
(* its effect or fails with no effect. A call fails when the appliance     *)
(* rejects it or when the request itself fails (fault).                    *)
(***************************************************************************)
Call(fn, name, size, target, snap, parent) ==
    [fn |-> fn, name |-> name, size |-> size, target |-> target,
     snap |-> snap, parent |-> parent]

Remove(f, k) == [x \in DOMAIN f \ {k} |-> f[x]]

\* Whether the appliance rejects the call in backend state be.
rejects(be, c) ==
    CASE c.fn = "create_volume" -> c.name \in DOMAIN be.storage
      [] c.fn = "delete_volume" -> \E d \in be.clones : d[3] = c.name
      [] c.fn = "create_snapshot" ->
            c.parent \notin DOMAIN be.storage \/ <<c.snap, c.parent>> \in be.snaps
      [] c.fn = "delete_snapshot" ->
            \E d \in be.clones : d[2] = c.snap /\ d[3] = c.parent
      [] c.fn = "create_volume_from_snapshot" ->
            <<c.snap, c.parent>> \notin be.snaps \/ c.name \in DOMAIN be.storage
      [] c.fn = "promote_volume" -> c.name \notin DOMAIN be.storage
      [] c.fn = "extend_volume" ->
            c.name \notin DOMAIN be.storage \/ c.size < be.storage[c.name]
      [] c.fn = "create_export" -> c.name \notin DOMAIN be.storage
      [] OTHER -> FALSE

\* The backend state after the call succeeded.
effect(be, c) ==
    CASE c.fn = "create_volume" ->
            [be EXCEPT !.storage = (c.name :> c.size) @@ be.storage]
      [] c.fn = "delete_volume" ->
            [be EXCEPT !.storage = Remove(be.storage, c.name),
                       !.snaps = {x \in be.snaps : x[2] # c.name},
                       !.clones = {d \in be.clones : d[1] # c.name}]
      [] c.fn = "create_iscsitarget" ->
            [be EXCEPT !.targets = be.targets \cup {<<c.target, c.name>>}]
      [] c.fn = "delete_iscsitarget" ->
            [be EXCEPT !.targets = {t \in be.targets : t[1] # c.target}]
      [] c.fn = "create_snapshot" ->
            [be EXCEPT !.snaps = be.snaps \cup {<<c.snap, c.parent>>}]
      [] c.fn = "delete_snapshot" ->
            [be EXCEPT !.snaps = be.snaps \ {<<c.snap, c.parent>>}]
      [] c.fn = "create_volume_from_snapshot" ->
            [be EXCEPT !.storage = (c.name :> be.storage[c.parent]) @@ be.storage,
                       !.clones = be.clones \cup {<<c.name, c.snap, c.parent>>}]
      [] c.fn = "promote_volume" ->
            [be EXCEPT !.clones = {d \in be.clones : d[1] # c.name}]
      [] c.fn = "extend_volume" ->
            [be EXCEPT !.storage = [be.storage EXCEPT ![c.name] = c.size]]
      [] c.fn = "create_export" ->
            [be EXCEPT !.targets = be.targets \cup {<<c.target, c.name>>}]
      [] OTHER -> be

\* The handle create_export answers with: the locator of the target.
export_handle(c) ==
    <<get_iscsi_portal(ixsystems_server_hostname, ixsystems_server_iscsi_port),
      <<ixsystems_iqn_prefix, c.target>> >>

\* The same, with a failed call issued a second time before giving up.
RECURSIVE run_retrying(_, _, _, _)
run_retrying(be, plan, i, fault) ==
    IF i > Len(plan)
    THEN [be |-> be, calls |-> plan, result |-> "ok"]
    ELSE IF i = fault \/ rejects(be, plan[i])
         THEN [be |-> be, calls |-> SubSeq(plan, 1, i) \o <<plan[i]>>,
               result |-> "FreeNASApiError"]
         ELSE run_retrying(effect(be, plan[i]), plan, i + 1, fault)

\* The calls of plan from the i-th on, in order, until one fails: the
\* exception of a failed call leaves the handler at once.
RECURSIVE run(_, _, _, _)
run(be, plan, i, fault) ==
    IF i > Len(plan)
    THEN [be |-> be, calls |-> plan, result |-> "ok"]
    ELSE IF i = fault \/ rejects(be, plan[i])
         THEN [be |-> be, calls |-> SubSeq(plan, 1, i), result |-> "FreeNASApiError"]
         ELSE run(effect(be, plan[i]), plan, i + 1, fault)

ServiceProject == "service"

is_service_project(project_id) == project_id = ServiceProject

(***************************************************************************)
(* re.match(r"image-[a-zA-Z0-9]+-[a-z0-9]+-[a-z0-9]+-[a-z0-9]+-[a-z0-9]+") *)
(***************************************************************************)
LowerDigit ==
    {"a", "b", "c", "d", "e", "f", "g", "h", "i", "j", "k", "l", "m", "n", "o",
     "p", "q", "r", "s", "t", "u", "v", "w", "x", "y", "z",
     "0", "1", "2", "3", "4", "5", "6", "7", "8", "9"}

AlphaNum ==
    LowerDigit \cup
    {"A", "B", "C", "D", "E", "F", "G", "H", "I", "J", "K", "L", "M", "N", "O",
     "P", "Q", "R", "S", "T", "U", "V", "W", "X", "Y", "Z"}

\* The index after the longest run of cls characters of s that starts at i.
RECURSIVE run_end(_, _, _)
run_end(s, i, cls) ==
    IF i <= Len(s) /\ s[i] \in cls THEN run_end(s, i + 1, cls) ELSE i

\* cls+ followed by "-", matched at i: the index after the "-", or 0 when
\* there is no match (no class holds "-", so only the longest run can be
\* followed by it).
group_dash(s, i, cls) ==
    LET j == run_end(s, i, cls)
    IN  IF i > 0 /\ j > i /\ j <= Len(s) /\ s[j] = "-" THEN j + 1 ELSE 0

image_cache_match(s) ==
    LET lit == <<"i", "m", "a", "g", "e", "-">>
        p0 == IF Len(s) >= 6 /\ SubSeq(s, 1, 6) = lit THEN 7 ELSE 0
        p1 == group_dash(s, p0, AlphaNum)
        p2 == group_dash(s, p1, LowerDigit)
        p3 == group_dash(s, p2, LowerDigit)
        p4 == group_dash(s, p3, LowerDigit)
    IN  p4 > 0 /\ run_end(s, p4, LowerDigit) > p4

(***************************************************************************)
(* Lifecycle handlers: the backend calls each issues, in order.            *)
(***************************************************************************)
\* The target created before the storage object it is bound to.
create_volume_plan_target_first(volume) ==
    LET freenas_volume == generate_freenas_volume_name(volume.name, ixsystems_iqn_prefix)
    IN  <<Call("create_iscsitarget", freenas_volume.name, 0, freenas_volume.target,
               NoName, NoName),
          Call("create_volume", freenas_volume.name, volume.size, NoName, NoName, NoName)>>

create_volume_plan(volume) ==
    LET freenas_volume == generate_freenas_volume_name(volume.name, ixsystems_iqn_prefix)
    IN  <<Call("create_volume", freenas_volume.name, volume.size, NoName, NoName, NoName),
          Call("create_iscsitarget", freenas_volume.name, 0, freenas_volume.target,
               NoName, NoName)>>

\* The storage object deleted and the target left behind.
delete_volume_plan_storage_only(volume) ==
    LET freenas_volume == generate_freenas_volume_name(volume.name, ixsystems_iqn_prefix)
    IN  IF freenas_volume.name # NoName
        THEN <<Call("delete_volume", freenas_volume.name, 0, NoName, NoName, NoName)>>
        ELSE <<>>

\* The storage object deleted before the target.
delete_volume_plan_storage_first(volume) ==
    LET freenas_volume == generate_freenas_volume_name(volume.name, ixsystems_iqn_prefix)
    IN  (IF freenas_volume.name # NoName
         THEN <<Call("delete_volume", freenas_volume.name, 0, NoName, NoName, NoName)>>
         ELSE <<>>)
        \o
        (IF freenas_volume.target # NoName
         THEN <<Call("delete_iscsitarget", NoName, 0, freenas_volume.target, NoName, NoName)>>
         ELSE <<>>)

delete_volume_plan(volume) ==
    LET freenas_volume == generate_freenas_volume_name(volume.name, ixsystems_iqn_prefix)
    IN  (IF freenas_volume.target # NoName
         THEN <<Call("delete_iscsitarget", NoName, 0, freenas_volume.target, NoName, NoName)>>
         ELSE <<>>)
        \o
        (IF freenas_volume.name # NoName
         THEN <<Call("delete_volume", freenas_volume.name, 0, NoName, NoName, NoName)>>
         ELSE <<>>)

create_snapshot_plan(snapshot) ==
    LET freenas_snapshot == generate_freenas_snapshot_name(snapshot.name, ixsystems_iqn_prefix)
        freenas_volume == generate_freenas_volume_name(snapshot.volume_name,
                                                       ixsystems_iqn_prefix)
    IN  <<Call("create_snapshot", NoName, 0, NoName, freenas_snapshot.name,
               freenas_volume.name)>>

delete_snapshot_plan(snapshot) ==
    LET freenas_snapshot == generate_freenas_snapshot_name(snapshot.name, ixsystems_iqn_prefix)
        freenas_volume == generate_freenas_volume_name(snapshot.volume_name,
                                                       ixsystems_iqn_prefix)
    IN  <<Call("delete_snapshot", NoName, 0, NoName, freenas_snapshot.name,
               freenas_volume.name)>>

\* The condition without the image_volume_cache_enabled flag.
promotes_ignoring_cache_flag(volume) ==
    /\ is_service_project(volume.project_id)
    /\ image_cache_match(volume.display_name.s)

\* The condition of lines 278-281, once re.match has been given a string.
promotes(volume) ==
    /\ cacheEnabled
    /\ is_service_project(volume.project_id)
    /\ image_cache_match(volume.display_name.s)

\* re.match raises TypeError when display_name is None; "and" evaluates it
\* only after the two conditions before it hold.
match_raises(volume) ==
    /\ cacheEnabled
    /\ is_service_project(volume.project_id)
    /\ volume.display_name.t = "None"

\* The clone promoted before its export target is created.
create_volume_from_snapshot_plan_promote_first(volume, snapshot) ==
    LET existing_vol == generate_freenas_volume_name(snapshot.volume_name,
                                                     ixsystems_iqn_prefix)
        freenas_snapshot == generate_freenas_snapshot_name(snapshot.name, ixsystems_iqn_prefix)
        freenas_volume == generate_freenas_volume_name(volume.name, ixsystems_iqn_prefix)
    IN  <<Call("create_volume_from_snapshot", freenas_volume.name, 0, NoName,
               freenas_snapshot.name, existing_vol.name)>>
        \o
        (IF ~match_raises(volume) /\ promotes(volume)
         THEN <<Call("promote_volume", freenas_volume.name, 0, NoName, NoName, NoName)>>
         ELSE <<>>)
        \o
        <<Call("create_iscsitarget", freenas_volume.name, 0, freenas_volume.target,
               NoName, NoName)>>

create_volume_from_snapshot_plan(volume, snapshot) ==
    LET existing_vol == generate_freenas_volume_name(snapshot.volume_name,
                                                     ixsystems_iqn_prefix)
        freenas_snapshot == generate_freenas_snapshot_name(snapshot.name, ixsystems_iqn_prefix)
        freenas_volume == generate_freenas_volume_name(volume.name, ixsystems_iqn_prefix)
    IN  <<Call("create_volume_from_snapshot", freenas_volume.name, 0, NoName,
               freenas_snapshot.name, existing_vol.name),
          Call("create_iscsitarget", freenas_volume.name, 0, freenas_volume.target,
               NoName, NoName)>>
        \o
        (IF ~match_raises(volume) /\ promotes(volume)
         THEN <<Call("promote_volume", freenas_volume.name, 0, NoName, NoName, NoName)>>
         ELSE <<>>)

\* The transient snapshot named after the source volume.
temp_snapshot_of_source(volume, src_vref) ==
    [volume_name |-> src_vref.name, name |-> <<"name", src_vref.id>>]

temp_snapshot(volume, src_vref) ==
    [volume_name |-> src_vref.name, name |-> <<"name", volume.id>>]

\* The transient snapshot deleted after the clone (line 302 left in).
create_cloned_volume_plan_deleting_snapshot(volume, src_vref) ==
    create_snapshot_plan(temp_snapshot(volume, src_vref))
    \o create_volume_from_snapshot_plan(volume, temp_snapshot(volume, src_vref))
    \o delete_snapshot_plan(temp_snapshot(volume, src_vref))

create_cloned_volume_plan(volume, src_vref) ==
    create_snapshot_plan(temp_snapshot(volume, src_vref))
    \o create_volume_from_snapshot_plan(volume, temp_snapshot(volume, src_vref))

\* The backend call issued whatever the sizes.
extend_volume_plan_unguarded(volume, new_size) ==
    LET freenas_volume == generate_freenas_volume_name(volume.name, ixsystems_iqn_prefix)
    IN  <<Call("extend_volume", freenas_volume.name, new_size, NoName, NoName, NoName)>>

extend_volume_plan(volume, new_size) ==
    LET freenas_volume == generate_freenas_volume_name(volume.name, ixsystems_iqn_prefix)
        freenas_new_size == new_size
    IN  IF volume.size # freenas_new_size
        THEN <<Call("extend_volume", freenas_volume.name, freenas_new_size,
                    NoName, NoName, NoName)>>
        ELSE <<>>

\* common.create_export(volume['name']): the gateway resolves the name.
create_export_plan(volume) ==
    LET fv == generate_freenas_volume_name(volume.name, ixsystems_iqn_prefix)
    IN  <<Call("create_export", fv.name, 0, fv.target, NoName, NoName)>>

\* An ensure_export that exports the volume under a target of its own.
ensure_export_plan_own_target(volume) ==
    LET fv == generate_freenas_volume_name(volume.name, ixsystems_iqn_prefix)
    IN  <<Call("create_export", fv.name, 0, <<"target-ensure", volume.id>>,
               NoName, NoName)>>

ensure_export_plan(volume) ==
    LET fv == generate_freenas_volume_name(volume.name, ixsystems_iqn_prefix)
    IN  <<Call("create_export", fv.name, 0, fv.target, NoName, NoName)>>

\* return {'provider_location': handle}, of the two export entry points.
returns(op, r) ==
    IF op \in {"create_export", "ensure_export"} /\ r.result = "ok"
    THEN <<[provider_location |-> export_handle(r.calls[1])]>>
    ELSE <<>>

NoLast ==
    [op |-> "", volume |-> <<>>, snapshot |-> <<>>, src |-> <<>>, new_size |-> 0,
     fault |-> 0, pre |-> <<>>, calls |-> <<>>, result |-> "", ret |-> <<>>]

BE == [storage |-> storage, targets |-> targets, snaps |-> snaps, clones |-> clones]

\* A handler run: its backend calls, then the outcome the caller sees.
\* raises: the handler raises TypeError once its backend calls are done.
handle(op, volume, snapshot, src, new_size, plan, fault, raises) ==
    LET r == run(BE, plan, 1, fault)
    IN  /\ last.op = ""
        /\ storage' = r.be.storage
        /\ targets' = r.be.targets
        /\ snaps' = r.be.snaps
        /\ clones' = r.be.clones
        /\ last' = [op |-> op, volume |-> volume, snapshot |-> snapshot, src |-> src,
                    new_size |-> new_size, fault |-> fault, pre |-> <<BE>>,
                    calls |-> r.calls,
                    result |-> IF r.result = "ok" /\ raises THEN "TypeError" ELSE r.result,
                    ret |-> returns(op, r)]
        /\ UNCHANGED cacheEnabled
        /\ UNCHANGED admVars
        /\ UNCHANGED statVars

create_volume(volume, fault) ==
    /\ fault \in 0..Len(create_volume_plan(volume))
    /\ handle("create_volume", <<volume>>, <<>>, <<>>, 0,
              create_volume_plan(volume), fault, FALSE)

delete_volume(volume, fault) ==
    /\ fault \in 0..Len(delete_volume_plan(volume))
    /\ handle("delete_volume", <<volume>>, <<>>, <<>>, 0,
              delete_volume_plan(volume), fault, FALSE)

create_snapshot(snapshot, fault) ==
    /\ fault \in 0..Len(create_snapshot_plan(snapshot))
    /\ handle("create_snapshot", <<>>, <<snapshot>>, <<>>, 0,
              create_snapshot_plan(snapshot), fault, FALSE)

delete_snapshot(snapshot, fault) ==
    /\ fault \in 0..Len(delete_snapshot_plan(snapshot))
    /\ handle("delete_snapshot", <<>>, <<snapshot>>, <<>>, 0,
              delete_snapshot_plan(snapshot), fault, FALSE)

create_volume_from_snapshot(volume, snapshot, fault) ==
    /\ fault \in 0..Len(create_volume_from_snapshot_plan(volume, snapshot))
    /\ handle("create_volume_from_snapshot", <<volume>>, <<snapshot>>, <<>>, 0,
              create_volume_from_snapshot_plan(volume, snapshot), fault,
              match_raises(volume))

create_cloned_volume(volume, src_vref, fault) ==
    /\ fault \in 0..Len(create_cloned_volume_plan(volume, src_vref))
    /\ handle("create_cloned_volume", <<volume>>, <<>>, <<src_vref>>, 0,
              create_cloned_volume_plan(volume, src_vref), fault,
              match_raises(volume))

extend_volume(volume, new_size, fault) ==
    /\ fault \in 0..Len(extend_volume_plan(volume, new_size))
    /\ handle("extend_volume", <<volume>>, <<>>, <<>>, new_size,
              extend_volume_plan(volume, new_size), fault, FALSE)

create_export(volume, fault) ==
    /\ fault \in 0..Len(create_export_plan(volume))
    /\ handle("create_export", <<volume>>, <<>>, <<>>, 0,
              create_export_plan(volume), fault, FALSE)

ensure_export(volume, fault) ==
    /\ fault \in 0..Len(ensure_export_plan(volume))
    /\ handle("ensure_export", <<volume>>, <<>>, <<>>, 0,
              ensure_export_plan(volume), fault, FALSE)

\* "we have nothing to do for unexporting": the body is a docstring.
remove_export == UNCHANGED vars

\* pass
terminate_connection == UNCHANGED vars

\* The volume manager has taken the outcome of the call: the calls for one
\* volume are serialized, the next is made once the last has returned.
returned ==
    /\ last.op # ""
    /\ last' = NoLast
    /\ UNCHANGED <<cacheEnabled, storage, targets, snaps, clones>>
    /\ UNCHANGED admVars
    /\ UNCHANGED statVars

(***************************************************************************)
(* FreeNASISCSIDriver.get_volume_stats, statement by statement: threads of *)
(* the volume service may be inside it at the same time. A capacity        *)
(* snapshot is a dict, here the set of its <<key, value>> items.           *)
(***************************************************************************)
EmptyStats == {}

\* dict.update(new): the keys of new are replaced, the other keys stay.
merged(old, new) == new \cup {p \in old : \A q \in new : q[1] # p[1]}

\* self.stats = <the dict update_volume_stats returned>: the name is bound
\* to the new dict, whatever it was bound to.
assigned(old, new) == new

\* A failed refresh that empties the cache.
emptied_on_failure(old) == EmptyStats

\* The exception of update_volume_stats leaves line 288 before the
\* assignment is made.
kept_on_failure(old) == old

NoStatsCall ==
    [pc |-> "idle", called |-> FALSE, refresh |-> FALSE, queries |-> 0,
     fetched |-> <<>>, ret |-> <<>>, raised |-> ""]

\* Entry: if refresh, line 288 is next, line 290 otherwise.
get_volume_stats(t, refresh) ==
    /\ thr[t].pc = "idle"
    /\ thr' = [thr EXCEPT ![t] = [NoStatsCall EXCEPT
                  !.pc = IF refresh THEN "update" ELSE "return",
                  !.called = TRUE, !.refresh = refresh]]
    /\ UNCHANGED <<stats, pool, reads, lastWrite>>
    /\ UNCHANGED admVars
    /\ UNCHANGED lifeVars

\* The right-hand side of line 288: the backend is asked, and answers or fails.
update_volume_stats(t, fault) ==
    /\ thr[t].pc = "update"
    /\ IF fault
       THEN /\ thr' = [thr EXCEPT ![t].pc = "idle", ![t].queries = @ + 1,
                                  ![t].raised = "FreeNASApiError"]
            /\ stats' = kept_on_failure(stats)
            /\ reads' = reads
       ELSE /\ thr' = [thr EXCEPT ![t].pc = "assign", ![t].queries = @ + 1,
                                  ![t].fetched = <<pool>>]
            /\ stats' = stats
            /\ reads' = reads \cup {pool}
    /\ UNCHANGED <<pool, lastWrite>>
    /\ UNCHANGED admVars
    /\ UNCHANGED lifeVars

\* The assignment of line 288.
assign_stats(t) ==
    /\ thr[t].pc = "assign"
    /\ stats' = assigned(stats, thr[t].fetched[1])
    /\ lastWrite' = thr[t].fetched[1]
    /\ thr' = [thr EXCEPT ![t].pc = "return"]
    /\ UNCHANGED <<pool, reads>>
    /\ UNCHANGED admVars
    /\ UNCHANGED lifeVars

\* return self.stats
return_stats(t) ==
    /\ thr[t].pc = "return"
    /\ thr' = [thr EXCEPT ![t].pc = "idle", ![t].ret = <<stats>>]
    /\ UNCHANGED <<stats, pool, reads, lastWrite>>
    /\ UNCHANGED admVars
    /\ UNCHANGED lifeVars

\* The capacity of the appliance changes.
pool_changes(new) ==
    /\ new # pool
    /\ pool' = new
    /\ UNCHANGED <<stats, thr, reads, lastWrite>>
    /\ UNCHANGED admVars
    /\ UNCHANGED lifeVars

(***************************************************************************)
(* Inputs of the admission check.                                          *)
(***************************************************************************)
Versions == {"11.3", "12.0", "13.0"}

TunableValues == {PyStr(<<"1", "0">>), PyStr(<<"5">>), PyStr(<<"x">>), PyStr(<<"sup2">>)}

TunableEntries ==
    {[var |-> v, enabled |-> TRUE, value |-> x] : v \in {MAX_LUNS, MAX_PORTS}, x \in TunableValues}
    \cup {[var |-> v, enabled |-> FALSE, value |-> PyStr(<<"5">>)] : v \in {MAX_LUNS, MAX_PORTS}}
    \cup {[var |-> "kern.ipc.maxsockbuf", enabled |-> TRUE, value |-> PyStr(<<"5">>)]}

\* The appliance keeps one tunable per variable.
TunableLists ==
    {t \in UNION {[1..n -> TunableEntries] : n \in 0..MaxTunables} :
        \A i, j \in DOMAIN t : i # j => t[i].var # t[j].var}

IxHost == PyStr(<<"node1", "@ixsystems-iscsi#", "tank">>)
LvmHost == PyStr(<<"node1", "@lvm#", "lvm">>)

\* Volumes the count must skip: no host, another backend, not attached.
OtherDbVols ==
    <<[host |-> PyNone, attach_status |-> "attached"],
      [host |-> LvmHost, attach_status |-> "attached"],
      [host |-> IxHost, attach_status |-> "detached"]>>

DbLists ==
    {[i \in 1..k |-> [host |-> IxHost, attach_status |-> "attached"]] \o tail :
        k \in 0..MaxAttached, tail \in {<<>>, OtherDbVols}}

\* The last has a name that is neither a volume's nor a snapshot's.
ConnVolumes ==
    {[name |-> <<"volume", "v1">>, id |-> "v1", project_id |-> "tenant"],
     [name |-> <<"snapshot", "s1">>, id |-> "v2", project_id |-> "service"],
     [name |-> <<"backup", "b1">>, id |-> "v3", project_id |-> "tenant"]}

\* The lists the administrator changes the tunables to.
ChangedTunables ==
    {<<>>,
     <<[var |-> MAX_LUNS, enabled |-> TRUE, value |-> PyStr(<<"5">>)]>>}

LifeIdle ==
    /\ cacheEnabled = FALSE
    /\ storage = [n \in {} |-> 0]
    /\ targets = {}
    /\ snaps = {}
    /\ clones = {}
    /\ last = NoLast

Threads == 1..NumThreads

\* What the appliance reports: the second carries a key the first lacks.
PoolSnapshots ==
    {{<<"total_capacity_gb", 10>>, <<"free_capacity_gb", 10>>},
     {<<"total_capacity_gb", 10>>, <<"free_capacity_gb", 4>>,
      <<"provisioned_capacity_gb", 6>>}}

\* After __init__: self.stats = {} and no call made.
StatInit ==
    /\ stats = EmptyStats
    /\ thr = [t \in Threads |-> NoStatsCall]
    /\ reads = {}
    /\ lastWrite = EmptyStats

StatIdle ==
    /\ StatInit
    /\ pool = CHOOSE p \in PoolSnapshots : Cardinality(p) = 2

InitAdm ==
    /\ version \in Versions
    /\ confLoaded \in BOOLEAN
    /\ tunable \in TunableLists
    /\ dbvols \in DbLists
    /\ messages = <<>>
    /\ conn = NoCall
    /\ LifeIdle
    /\ StatIdle

NextAdm ==
    \/ \E volume \in ConnVolumes : initialize_connection(volume)
    \/ \E new \in ChangedTunables : tunable_changes(new)

SpecAdm == InitAdm /\ [][NextAdm]_vars

(***************************************************************************)
(* Inputs of the lifecycle calls.                                          *)
(***************************************************************************)
VolumeIds == {"v1", "v2"}

Chars(name) ==
    CASE name = "cache" ->
            <<"i", "m", "a", "g", "e", "-", "A", "1", "-", "b", "-", "c", "-", "d", "-", "e">>
      [] name = "cache-suffixed" ->
            <<"i", "m", "a", "g", "e", "-", "a", "-", "b", "-", "c", "-", "d", "-", "e", "-", "X">>
      [] name = "upper-in-second-group" ->
            <<"i", "m", "a", "g", "e", "-", "a", "-", "B", "-", "c", "-", "d", "-", "e">>
      [] name = "four-groups" ->
            <<"i", "m", "a", "g", "e", "-", "a", "-", "b", "-", "c", "-", "d">>
      [] name = "not-at-start" ->
            <<"x", "i", "m", "a", "g", "e", "-", "a", "-", "b", "-", "c", "-", "d", "-", "e">>

DisplayNames ==
    {PyStr(Chars(n)) : n \in {"cache", "cache-suffixed", "upper-in-second-group",
                              "four-groups"}}
    \cup {PyNone}

\* Volumes as the volume manager hands them to the lifecycle calls that
\* read no more than name and size.
PlainVolumes ==
    {[name |-> <<"volume", i>>, id |-> i, size |-> z, project_id |-> "tenant",
      display_name |-> PyStr(Chars("not-at-start"))] : i \in VolumeIds, z \in 1..MaxSize}

\* The same, for the calls that read no more than the name.
NameOnlyVolumes == {v \in PlainVolumes : v.size = 1}

\* The volume that snapshots are taken of and clones are made from.
SourceVolumes == {v \in NameOnlyVolumes : v.id = "v1"}

\* The project and display name of a volume made from a snapshot.
Owners ==
    {<<ServiceProject, d>> : d \in DisplayNames} \cup {<<"tenant", PyStr(Chars("cache"))>>}

\* The volumes made from a snapshot or cloned.
NewVolumes ==
    {[name |-> <<"volume", "v2">>, id |-> "v2", size |-> 1, project_id |-> o[1],
      display_name |-> o[2]] : o \in Owners}

Snapshots == {[name |-> <<"snapshot", "s1">>, volume_name |-> <<"volume", "v1">>]}

\* A volume whose name the volume resolver has no backend name for.
UnresolvedVolumes ==
    {[name |-> <<"backup", "b1">>, id |-> "v3", size |-> 1, project_id |-> "tenant",
      display_name |-> PyStr(Chars("not-at-start"))]}

\* The new volumes of clone requests: two ids, an image-cache volume of the
\* service project or a tenant's volume.
CloneVolumes ==
    {[name |-> <<"volume", i>>, id |-> i, size |-> 1, project_id |-> o[1],
      display_name |-> o[2]] :
        i \in {"v2", "v3"},
        o \in {<<ServiceProject, PyStr(Chars("cache"))>>,
               <<"tenant", PyStr(Chars("not-at-start"))>>}}

AdmIdle ==
    /\ version = "11.3"
    /\ confLoaded = FALSE
    /\ tunable = <<>>
    /\ dbvols = <<>>
    /\ messages = <<>>
    /\ conn = NoCall

InitLife ==
    /\ cacheEnabled \in BOOLEAN
    /\ storage = [n \in {} |-> 0]
    /\ targets = {}
    /\ snaps = {}
    /\ clones = {}
    /\ last = NoLast
    /\ AdmIdle
    /\ StatIdle

NextLife ==
    \/ \E volume \in PlainVolumes, fault \in 0..2 : create_volume(volume, fault)
    \/ \E volume \in NameOnlyVolumes \cup UnresolvedVolumes, fault \in 0..2 :
          delete_volume(volume, fault)
    \/ \E volume \in NameOnlyVolumes, fault \in 0..1 : create_export(volume, fault)
    \/ \E volume \in NameOnlyVolumes, fault \in 0..1 : ensure_export(volume, fault)
    \/ \E snapshot \in Snapshots, fault \in 0..1 : create_snapshot(snapshot, fault)
    \/ \E snapshot \in Snapshots, fault \in 0..1 : delete_snapshot(snapshot, fault)
    \/ \E volume \in NewVolumes, snapshot \in Snapshots, fault \in 0..3 :
          create_volume_from_snapshot(volume, snapshot, fault)
    \/ \E volume \in NewVolumes, src_vref \in SourceVolumes, fault \in 0..4 :
          create_cloned_volume(volume, src_vref, fault)
    \/ \E volume \in PlainVolumes, new_size \in 1..MaxSize, fault \in 0..1 :
          extend_volume(volume, new_size, fault)
    \/ returned

SpecLife == InitLife /\ [][NextLife]_vars

(***************************************************************************)
(* Clones of one source volume under two new ids.                          *)
(***************************************************************************)
InitClone ==
    /\ cacheEnabled = TRUE
    /\ storage = [n \in {} |-> 0]
    /\ targets = {}
    /\ snaps = {}
    /\ clones = {}
    /\ last = NoLast
    /\ AdmIdle
    /\ StatIdle

NextClone ==
    \/ \E volume \in SourceVolumes : create_volume(volume, 0)
    \/ \E volume \in CloneVolumes, src_vref \in SourceVolumes, fault \in 0..4 :
          create_cloned_volume(volume, src_vref, fault)
    \/ \E volume \in CloneVolumes : delete_volume(volume, 0)
    \/ returned

SpecClone == InitClone /\ [][NextClone]_vars

(***************************************************************************)
(* get_volume_stats called from concurrent threads.                        *)
(***************************************************************************)
InitStats ==
    /\ StatInit
    /\ pool \in PoolSnapshots
    /\ AdmIdle
    /\ LifeIdle

NextStats ==
    \/ \E t \in Threads, refresh \in BOOLEAN : get_volume_stats(t, refresh)
    \/ \E t \in Threads, fault \in BOOLEAN : update_volume_stats(t, fault)
    \/ \E t \in Threads : assign_stats(t)
    \/ \E t \in Threads : return_stats(t)
    \/ \E new \in PoolSnapshots : pool_changes(new)

SpecStats == InitStats /\ [][NextStats]_vars

(***************************************************************************)
(* Every entry point of the driver, called one after the other by one      *)
(* thread.                                                                 *)
(***************************************************************************)
FrameVolume == CHOOSE v \in SourceVolumes : TRUE
FrameSnapshot == CHOOSE x \in Snapshots : TRUE
FrameNewVolume ==
    CHOOSE v \in NewVolumes :
        v.project_id = ServiceProject /\ v.display_name = PyStr(Chars("cache"))

InitFrame ==
    /\ StatInit
    /\ pool \in PoolSnapshots
    /\ AdmIdle
    /\ cacheEnabled = TRUE
    /\ storage = [n \in {} |-> 0]
    /\ targets = {}
    /\ snaps = {}
    /\ clones = {}
    /\ last = NoLast

NextFrame ==
    \/ \E refresh \in BOOLEAN : get_volume_stats(1, refresh)
    \/ \E fault \in BOOLEAN : update_volume_stats(1, fault)
    \/ assign_stats(1)
    \/ return_stats(1)
    \/ \E new \in PoolSnapshots : pool_changes(new)
    \/ create_volume(FrameVolume, 0)
    \/ delete_volume(FrameVolume, 0)
    \/ create_export(FrameVolume, 0)
    \/ ensure_export(FrameVolume, 0)
    \/ remove_export
    \/ \E volume \in ConnVolumes : initialize_connection(volume)
    \/ terminate_connection
    \/ create_snapshot(FrameSnapshot, 0)
    \/ delete_snapshot(FrameSnapshot, 0)
    \/ create_volume_from_snapshot(FrameNewVolume, FrameSnapshot, 0)
    \/ create_cloned_volume(FrameNewVolume, FrameVolume, 0)
    \/ extend_volume(FrameVolume, MaxSize, 0)
    \/ returned

SpecFrame == InitFrame /\ [][NextFrame]_vars

(***************************************************************************)
(* Claims on the admission check.                                          *)
(***************************************************************************)
IsDigitString(v) == v.t = "str" /\ Len(v.s) > 0 /\ \A i \in DOMAIN v.s : IsDecimalChar(v.s[i])

\* The limit a tunable list stands for: the value of its enabled entry for
\* var when that value is a string of digits, the default otherwise.
ClaimedLimit(tun, var, default) ==
    LET good == {i \in DOMAIN tun : tun[i].var = var /\ tun[i].enabled
                                     /\ IsDigitString(tun[i].value)}
    IN  IF good = {} THEN default
        ELSE int(tun[CHOOSE i \in good : \A j \in good : j <= i].value)

\* The tunable list in effect when the last call was made.
CallTunable == IF conn.tunable = <<>> THEN <<>> ELSE conn.tunable[1]

ClaimedMaxLuns == ClaimedLimit(CallTunable, MAX_LUNS, 1024)
ClaimedMaxPorts == ClaimedLimit(CallTunable, MAX_PORTS, 256)

\* The attached volumes of this backend in the database.
ClaimedAttached ==
    Cardinality({i \in DOMAIN dbvols : dbvols[i].host = IxHost
                                        /\ dbvols[i].attach_status = "attached"})

Enforced == version \in EnforcedVersions

\* C1: on an enforced version with the host configuration loaded,
\* check_connection returns False exactly when the number of attached
\* volumes of this backend is >= min(max_luns, max_ports), and returns
\* True otherwise.
C1_DeniesExactlyAtLimit ==
    (conn.check # "" /\ Enforced /\ confLoaded) =>
        conn.check = (IF ClaimedAttached >= min(ClaimedMaxLuns, ClaimedMaxPorts)
                      THEN "False" ELSE "True")

\* The decision of C1 in the calls in which int() raises nothing.
C1_DecisionWhenLimitsParse ==
    (conn.check \in {"True", "False"} /\ Enforced /\ confLoaded) =>
        conn.check = (IF ClaimedAttached >= min(ClaimedMaxLuns, ClaimedMaxPorts)
                      THEN "False" ELSE "True")

\* C2: each limit is the value of its tunable when that entry is enabled
\* and its value is a string of digits, and the default (max_luns 1024,
\* max_ports 256) otherwise, whatever the other entries are.
C2_LimitsFromTunablesOrDefaults ==
    (conn.check # "" /\ Enforced) =>
        /\ ~tunable_limits(CallTunable).raised
        /\ tunable_limits(CallTunable).max_luns = ClaimedMaxLuns
        /\ tunable_limits(CallTunable).max_ports = ClaimedMaxPorts

\* A step of the model that is an initialize_connection call.
IsConnCall == conn' # conn \/ messages' # messages

\* C3: a denied initialize_connection creates exactly one notification
\* (attach-volume, the volume's project_id and id), then raises, with no
\* connection properties returned and no name resolved; an allowed one
\* creates no notification.
C3_DenialNotifiesOnceThenRaises ==
    [][IsConnCall =>
        /\ conn'.check = "False" =>
            /\ messages' = Append(messages,
                  [action |-> "ATTACH_VOLUME",
                   project_id |-> conn'.volume[1].project_id,
                   resource_uuid |-> conn'.volume[1].id,
                   exception |-> "FreeNASApiError", detail |-> "ATTACH_ERROR"])
            /\ conn'.events = <<"check_connection", "message_api.create", "raise">>
            /\ conn'.raised = "FreeNASApiError"
            /\ conn'.ret = <<>>
        /\ conn'.check = "True" =>
            /\ messages' = messages
            /\ \A i \in DOMAIN conn'.events : conn'.events[i] # "message_api.create"
            /\ conn'.raised = ""
            /\ Len(conn'.ret) = 1
      ]_vars

C3_Witness ==
    /\ conn.check = "False"
    /\ conn.raised = "FreeNASApiError"
    /\ Len(messages) = 2
    /\ messages[2].resource_uuid = conn.volume[1].id
    /\ messages[1].project_id # messages[2].project_id

\* C11: when admission passes, the target IQN is the one of the volume-name
\* resolution if that yields a non-empty backend name and the one of the
\* snapshot-name resolution otherwise; when neither yields a name the call
\* fails with ResolutionError and returns no connection properties.
C11_ResolvesVolumeThenSnapshotOrFails ==
    conn.check = "True" =>
        LET name == conn.volume[1].name
            fv == generate_freenas_volume_name(name, ixsystems_iqn_prefix)
            fs == generate_freenas_snapshot_name(name, ixsystems_iqn_prefix)
        IN  IF fv.name # NoName
            THEN /\ conn.raised = ""
                 /\ Len(conn.ret) = 1
                 /\ conn.ret[1].data.target_iqn = fv.iqn
            ELSE IF fs.name # NoName
            THEN /\ conn.raised = ""
                 /\ Len(conn.ret) = 1
                 /\ conn.ret[1].data.target_iqn = fs.iqn
            ELSE /\ conn.raised = "ResolutionError"
                 /\ conn.ret = <<>>

\* C13: on a version other than 12.0 and 13.0 check_connection returns True
\* whatever the tunables and the attached count are, and reads neither the
\* tunables nor the volumes of the database.
C13_OtherVersionsAllowedWithoutReads ==
    (conn.check # "" /\ version \notin {"12.0", "13.0"}) =>
        /\ conn.check = "True"
        /\ conn.raised = ""
        /\ conn.tunable = <<>>
        /\ \A i \in DOMAIN conn.reads : conn.reads[i] \notin {"tunable", "volume_get_all"}

\* A call on 11.3 allowed where an enforced version denies or raises.
C13_Witness ==
    /\ version = "11.3"
    /\ conn.check = "True"
    /\ Len(conn.ret) = 1
    /\ confLoaded
    /\ ClaimedAttached = MaxAttached
    /\ tunable_limits(tunable).raised

\* The decision the limits of a tunable list stand for.
ClaimedDecision(tun) ==
    IF ClaimedAttached >= min(ClaimedLimit(tun, MAX_LUNS, 1024),
                              ClaimedLimit(tun, MAX_PORTS, 256))
    THEN "False" ELSE "True"

\* C18: every admission check reads the tunables anew: the list a call works
\* on is the list the appliance holds when the call is made, and its
\* decision is the one that list stands for, whatever the lists and
\* decisions of the calls before.
C18_DecisionFromLiveTunables ==
    [][IsConnCall =>
        /\ version \in {"12.0", "13.0"} => conn'.tunable = <<tunable>>
        /\ (version \in {"12.0", "13.0"} /\ confLoaded
              /\ conn'.check \in {"True", "False"}) =>
                conn'.check = ClaimedDecision(tunable)
      ]_vars

\* A call allowed after a call denied: the tunables changed in between.
C18_Witness ==
    /\ version \in {"12.0", "13.0"}
    /\ confLoaded
    /\ Len(messages) = 1
    /\ conn.check = "True"
    /\ conn.tunable = <<tunable>>

(***************************************************************************)
(* Claims on the lifecycle calls.                                          *)
(***************************************************************************)
Pre == last.pre[1]

Issued(fn) == {i \in DOMAIN last.calls : last.calls[i].fn = fn}

\* The i-th backend call of the last handler run was issued and succeeded.
Succeeded(i) ==
    i \in DOMAIN last.calls /\ (i < Len(last.calls) \/ last.result # "FreeNASApiError")

\* The last handler run failed at its i-th backend call.
FailedAt(i) == last.result = "FreeNASApiError" /\ Len(last.calls) = i

NoDeleteIssued ==
    \A i \in DOMAIN last.calls :
        last.calls[i].fn \notin {"delete_volume", "delete_iscsitarget", "delete_snapshot"}

\* The backend names a volume of the model stands for.
BackendName(volume) == <<"volume", volume.id>>
TargetName(volume) == <<"target", volume.id>>

FromSnapshot == last.op \in {"create_volume_from_snapshot", "create_cloned_volume"}

\* The display names of the model that the image-cache pattern matches
\* (re.match: the pattern is matched at the start of the name).
ClaimedCacheNames == {PyStr(Chars("cache")), PyStr(Chars("cache-suffixed"))}

ServiceAndCacheName ==
    /\ last.volume[1].project_id = ServiceProject
    /\ last.volume[1].display_name \in ClaimedCacheNames

\* C4 as stated: create_volume_from_snapshot invokes promotion if and only
\* if project_id is the service project and display_name matches the
\* image-cache pattern.
C4_PromotesIffServiceAndCacheName ==
    last.op = "create_volume_from_snapshot" =>
        (Issued("promote_volume") # {} <=> ServiceAndCacheName)

\* C4, amended: promotion is invoked if and only if the clone and the
\* export target were created, image_volume_cache_enabled is set, the
\* project is the service project and the display name matches the
\* pattern.
C4_PromotesIffCacheEnabledServiceAndCacheName ==
    FromSnapshot =>
        (Issued("promote_volume") # {} <=>
            /\ \E i \in Issued("create_iscsitarget") : Succeeded(i)
            /\ cacheEnabled
            /\ ServiceAndCacheName)

C4_Witness ==
    /\ last.op = "create_volume_from_snapshot"
    /\ last.result = "ok"
    /\ Issued("promote_volume") # {}
    /\ last.volume[1].display_name = PyStr(Chars("cache-suffixed"))

\* C5: promotion is attempted only after the clone and the export target of
\* the new volume were created, and a failed promotion rolls nothing back:
\* the clone and its target exist and no delete call was issued.
C5_PromotionLastAndNotRolledBack ==
    FromSnapshot =>
        \A i \in Issued("promote_volume") :
            /\ i = Len(last.calls)
            /\ i >= 3
            /\ last.calls[i - 2].fn = "create_volume_from_snapshot"
            /\ last.calls[i - 2].name = BackendName(last.volume[1])
            /\ last.calls[i - 1].fn = "create_iscsitarget"
            /\ last.calls[i - 1].name = BackendName(last.volume[1])
            /\ last.calls[i].name = BackendName(last.volume[1])
            /\ FailedAt(i) =>
                /\ BackendName(last.volume[1]) \in DOMAIN storage
                /\ <<TargetName(last.volume[1]), BackendName(last.volume[1])>> \in targets
                /\ \E d \in clones : d[1] = BackendName(last.volume[1])
                /\ NoDeleteIssued

C5_Witness ==
    /\ last.op = "create_volume_from_snapshot"
    /\ Issued("promote_volume") = {3}
    /\ FailedAt(3)
    /\ BackendName(last.volume[1]) \in DOMAIN storage

\* C6: a successful create_cloned_volume(volumeB, volumeA) issues one
\* snapshot creation with parent volumeA, then one clone of that snapshot
\* into volumeB, then the export target of volumeB, and no snapshot
\* deletion: the transient snapshot exists when the call returns.
C6_CloneIsSnapshotThenCloneNoDelete ==
    (last.op = "create_cloned_volume" /\ last.result = "ok") =>
        /\ Issued("create_snapshot") = {1}
        /\ last.calls[1].parent = BackendName(last.src[1])
        /\ last.calls[1].snap # NoName
        /\ Issued("create_volume_from_snapshot") = {2}
        /\ last.calls[2].snap = last.calls[1].snap
        /\ last.calls[2].parent = BackendName(last.src[1])
        /\ last.calls[2].name = BackendName(last.volume[1])
        /\ Issued("create_iscsitarget") = {3}
        /\ last.calls[3].name = BackendName(last.volume[1])
        /\ last.calls[3].target = TargetName(last.volume[1])
        /\ Issued("delete_snapshot") = {}
        /\ <<last.calls[1].snap, BackendName(last.src[1])>> \in snaps
        /\ <<last.calls[1].snap, BackendName(last.src[1])>> \notin Pre.snaps
        /\ BackendName(last.volume[1]) \in DOMAIN storage
        /\ <<TargetName(last.volume[1]), BackendName(last.volume[1])>> \in targets

C6_Witness ==
    /\ last.op = "create_cloned_volume"
    /\ last.result = "ok"
    /\ Issued("promote_volume") # {}
    /\ Cardinality(snaps) = 2

\* C7: after create_volume(v) the backend holds the storage object and the
\* export target of v; after delete_volume(v) it holds neither; a
\* delete_volume(v) of an absent volume raises no error and changes nothing.
C7_DeleteVolumeIdempotent ==
    /\ (last.op = "create_volume" /\ last.result = "ok") =>
          /\ BackendName(last.volume[1]) \in DOMAIN storage
          /\ storage[BackendName(last.volume[1])] = last.volume[1].size
          /\ <<TargetName(last.volume[1]), BackendName(last.volume[1])>> \in targets
    /\ (last.op = "delete_volume" /\ last.result = "ok") =>
          /\ BackendName(last.volume[1]) \notin DOMAIN storage
          /\ \A t \in targets : t[1] # TargetName(last.volume[1])
    /\ (/\ last.op = "delete_volume"
        /\ last.fault = 0
        /\ BackendName(last.volume[1]) \notin DOMAIN Pre.storage
        /\ \A t \in Pre.targets : t[1] # TargetName(last.volume[1])) =>
          /\ last.result = "ok"
          /\ BE = Pre

C7_Witness ==
    /\ last.op = "delete_volume"
    /\ last.result = "ok"
    /\ BackendName(last.volume[1]) \notin DOMAIN Pre.storage
    /\ \A t \in Pre.targets : t[1] # TargetName(last.volume[1])
    /\ Len(last.calls) = 2
    /\ Pre.storage # [n \in {} |-> 0]

\* C8: create_volume provisions the storage object, then creates the
\* target: a failed provisioning is followed by no target creation, and a
\* failed target creation leaves the storage object, with no delete issued.
C8_CreateVolumeOrderNoRollback ==
    last.op = "create_volume" =>
        /\ last.calls[1].fn = "create_volume"
        /\ last.calls[1].name = BackendName(last.volume[1])
        /\ FailedAt(1) => (Issued("create_iscsitarget") = {} /\ BE = Pre)
        /\ Issued("create_iscsitarget") \subseteq {2}
        /\ FailedAt(2) =>
            /\ last.calls[2].fn = "create_iscsitarget"
            /\ BackendName(last.volume[1]) \in DOMAIN storage
            /\ storage[BackendName(last.volume[1])] = last.volume[1].size
            /\ BackendName(last.volume[1]) \notin DOMAIN Pre.storage
            /\ targets = Pre.targets
            /\ NoDeleteIssued

C8_Witness ==
    /\ last.op = "create_volume"
    /\ FailedAt(2)
    /\ BackendName(last.volume[1]) \in DOMAIN storage

\* C10: extend_volume with new_size equal to the volume's size issues no
\* backend call; with another new_size it issues one extend call, for the
\* volume's backend name and new_size.
C10_ExtendOnlyWhenSizeDiffers ==
    last.op = "extend_volume" =>
        /\ last.volume[1].size = last.new_size => (last.calls = <<>> /\ BE = Pre)
        /\ last.volume[1].size # last.new_size =>
            /\ Len(last.calls) = 1
            /\ last.calls[1].fn = "extend_volume"
            /\ last.calls[1].name = BackendName(last.volume[1])
            /\ last.calls[1].size = last.new_size

C10_Witness ==
    /\ last.op = "extend_volume"
    /\ last.volume[1].size = last.new_size
    /\ BackendName(last.volume[1]) \in DOMAIN storage
    /\ storage[BackendName(last.volume[1])] = last.new_size
    /\ last.result = "ok"

\* The backend calls the last handler run was to issue.
PlanOfLast ==
    CASE last.op = "create_volume" -> create_volume_plan(last.volume[1])
      [] last.op = "delete_volume" -> delete_volume_plan(last.volume[1])
      [] last.op = "create_snapshot" -> create_snapshot_plan(last.snapshot[1])
      [] last.op = "delete_snapshot" -> delete_snapshot_plan(last.snapshot[1])
      [] last.op = "create_volume_from_snapshot" ->
            create_volume_from_snapshot_plan(last.volume[1], last.snapshot[1])
      [] last.op = "create_cloned_volume" ->
            create_cloned_volume_plan(last.volume[1], last.src[1])
      [] last.op = "extend_volume" -> extend_volume_plan(last.volume[1], last.new_size)
      [] last.op = "create_export" -> create_export_plan(last.volume[1])
      [] last.op = "ensure_export" -> ensure_export_plan(last.volume[1])
      [] OTHER -> <<>>

CreateDeleteSnapshotOps ==
    {"create_volume", "delete_volume", "create_snapshot", "delete_snapshot",
     "create_volume_from_snapshot", "create_cloned_volume"}

\* The call failed at a backend step.
BackendFailure == last.op \in CreateDeleteSnapshotOps /\ last.result = "FreeNASApiError"

\* The one exception the design documents.
DocumentedException == last.op = "create_volume" /\ FailedAt(2)

\* C9 as stated: but for the documented exception, a create, delete or
\* snapshot call that fails at a backend step leaves the backend state
\* equal to the state before the call or to the state a successful call
\* would have produced.
C9_FailedCallLeavesPreOrPostState ==
    (BackendFailure /\ ~DocumentedException) =>
        \/ BE = Pre
        \/ /\ run(Pre, PlanOfLast, 1, 0).result = "ok"
           /\ BE = run(Pre, PlanOfLast, 1, 0).be

\* C9, amended: a call that fails at its first backend step leaves the
\* state before the call; one that fails at a later step keeps what the
\* steps before it did and issues no compensating call.
C9_FailedCallKeepsCompletedSteps ==
    BackendFailure =>
        /\ FailedAt(1) => BE = Pre
        /\ last.op \notin {"delete_volume", "delete_snapshot"} => NoDeleteIssued
        /\ last.op \in {"delete_volume", "delete_snapshot"} =>
            \A i \in DOMAIN last.calls :
                last.calls[i].fn \in {"delete_volume", "delete_iscsitarget", "delete_snapshot"}
        /\ (last.op = "delete_volume" /\ FailedAt(2)) =>
            /\ last.calls[1].fn = "delete_iscsitarget"
            /\ last.calls[2].fn = "delete_volume"
            /\ targets = {t \in Pre.targets : t[1] # TargetName(last.volume[1])}
            /\ storage = Pre.storage
            /\ snaps = Pre.snaps
            /\ clones = Pre.clones
        /\ (last.op = "create_volume_from_snapshot" /\ FailedAt(2)) =>
            /\ last.calls[1].fn = "create_volume_from_snapshot"
            /\ last.calls[2].fn = "create_iscsitarget"
            /\ BackendName(last.volume[1]) \in DOMAIN storage \ DOMAIN Pre.storage
            /\ targets = Pre.targets
            /\ snaps = Pre.snaps
        /\ (last.op = "create_cloned_volume" /\ ~FailedAt(1)) =>
            /\ last.calls[1].fn = "create_snapshot"
            /\ snaps = Pre.snaps \cup {<<last.calls[1].snap, BackendName(last.src[1])>>}
            /\ snaps # Pre.snaps
            /\ (FailedAt(2) \/ FailedAt(3)) => targets = Pre.targets
            /\ FailedAt(2) => storage = Pre.storage
            /\ ~FailedAt(2) => BackendName(last.volume[1]) \in DOMAIN storage \ DOMAIN Pre.storage

C9_Witness ==
    /\ last.op = "delete_volume"
    /\ FailedAt(2)
    /\ <<TargetName(last.volume[1]), BackendName(last.volume[1])>> \in Pre.targets
    /\ BackendName(last.volume[1]) \in DOMAIN storage
    /\ BE # Pre

(***************************************************************************)
(* Claims on the export calls, the order of deletion, failures and the     *)
(* transient snapshot of a clone.                                          *)
(***************************************************************************)
ExportOps == {"create_export", "ensure_export"}

\* The targets the backend holds for the storage object of a volume.
TargetsOf(be, volume) == {t \in be.targets : t[2] = BackendName(volume)}

\* C14: on a provisioned volume every create_export and ensure_export call
\* that the backend serves returns the handle of one and the same target,
\* the volume's, and leaves that target as the only one of the volume.
C14_ExportsReturnTheOneTarget ==
    (/\ last.op \in ExportOps
     /\ last.fault = 0
     /\ BackendName(last.volume[1]) \in DOMAIN Pre.storage) =>
        /\ last.result = "ok"
        /\ Len(last.ret) = 1
        /\ last.ret[1].provider_location[2][2] = TargetName(last.volume[1])
        /\ TargetsOf(BE, last.volume[1])
              = {<<TargetName(last.volume[1]), BackendName(last.volume[1])>>}
        /\ TargetsOf(Pre, last.volume[1]) \subseteq TargetsOf(BE, last.volume[1])
        /\ storage = Pre.storage
        /\ snaps = Pre.snaps
        /\ clones = Pre.clones

\* ensure_export on a volume that has its target already.
C14_Witness ==
    /\ last.op = "ensure_export"
    /\ last.result = "ok"
    /\ Len(last.ret) = 1
    /\ TargetsOf(Pre, last.volume[1]) # {}
    /\ targets = Pre.targets

\* The volume has a name the volume resolver gives backend names for.
Resolved(volume) == volume.name[1] = "volume"

\* C15: delete_volume deletes the target first, when the volume resolves
\* to a target name, and the storage object after it, when the volume
\* resolves to a backend name: no storage deletion is issued before the
\* target deletion has succeeded, and none when the target deletion fails.
C15_TargetDeletedBeforeStorage ==
    last.op = "delete_volume" =>
        /\ \A i \in Issued("delete_iscsitarget") :
              /\ Resolved(last.volume[1])
              /\ last.calls[i].target = TargetName(last.volume[1])
        /\ \A i \in Issued("delete_volume") :
              /\ Resolved(last.volume[1])
              /\ last.calls[i].name = BackendName(last.volume[1])
              /\ \E j \in Issued("delete_iscsitarget") : j < i /\ Succeeded(j)
        /\ Resolved(last.volume[1]) =>
              /\ Len(last.calls) >= 1
              /\ last.calls[1].fn = "delete_iscsitarget"
              /\ FailedAt(1) => (Issued("delete_volume") = {} /\ storage = Pre.storage)
              /\ last.result = "ok" => Issued("delete_volume") = {2}
        /\ ~Resolved(last.volume[1]) => (last.calls = <<>> /\ BE = Pre)

\* The target deletion of a provisioned volume failed.
C15_Witness ==
    /\ last.op = "delete_volume"
    /\ FailedAt(1)
    /\ BackendName(last.volume[1]) \in DOMAIN storage
    /\ TargetsOf(BE, last.volume[1]) # {}

\* C16: in every call the backend operations are issued in the order of
\* the handler, each at most once, up to the first that fails: a failing
\* operation is the last one issued and its error is the outcome of the
\* call.
C16_BackendFailureIsTerminal ==
    last.op # "" =>
        /\ Len(last.calls) <= Len(PlanOfLast)
        /\ last.calls = SubSeq(PlanOfLast, 1, Len(last.calls))
        /\ \A i, j \in DOMAIN last.calls : i # j => last.calls[i].fn # last.calls[j].fn
        /\ last.fault # 0 =>
              /\ last.result = "FreeNASApiError"
              /\ Len(last.calls) <= last.fault
        /\ last.result = "FreeNASApiError" => Len(last.calls) >= 1
        /\ last.result # "FreeNASApiError" => last.calls = PlanOfLast

\* A clone whose third backend call of four failed.
C16_Witness ==
    /\ last.op = "create_cloned_volume"
    /\ Len(PlanOfLast) = 4
    /\ last.fault = 3
    /\ FailedAt(3)

\* The backend name of the transient snapshot 'name-<id>' of a clone.
TransientSnapshot(volume) == <<"snap", volume.id>>

\* C20: the first backend call of create_cloned_volume creates the snapshot
\* named after the new volume's id on the source volume, also when an
\* earlier attempt has left that snapshot; the snapshot is not the one of a
\* clone with another id, and no snapshot is deleted.
C20_TransientSnapshotFromNewId ==
    last.op = "create_cloned_volume" =>
        /\ Len(last.calls) >= 1
        /\ last.calls[1].fn = "create_snapshot"
        /\ last.calls[1].snap = TransientSnapshot(last.volume[1])
        /\ last.calls[1].parent = BackendName(last.src[1])
        /\ \A d \in Pre.clones :
              d[1] # BackendName(last.volume[1]) => d[2] # last.calls[1].snap
        /\ NoDeleteIssued
        /\ Pre.snaps \subseteq snaps

\* A clone asked for again after an attempt that left its snapshot, next to
\* the clone of another id.
C20_Witness ==
    /\ last.op = "create_cloned_volume"
    /\ <<TransientSnapshot(last.volume[1]), BackendName(last.src[1])>> \in Pre.snaps
    /\ BackendName(last.volume[1]) \notin DOMAIN Pre.storage
    /\ last.calls[1].snap = TransientSnapshot(last.volume[1])
    /\ \E d \in Pre.clones : d[1] # BackendName(last.volume[1])

(***************************************************************************)
(* Claims on get_volume_stats.                                             *)
(***************************************************************************)
\* The snapshots that are whole: the empty one of __init__ and the results
\* of the backend reads made so far, each as the backend gave it.
Whole == {EmptyStats} \cup reads

\* The call of the one thread of the sequential specification.
StatsCall == thr[1]

StatsCallDone == StatsCall.called /\ StatsCall.pc = "idle"

\* C12: called one after the other, get_volume_stats(refresh=False) makes no
\* backend query and returns the cache; get_volume_stats(refresh=True)
\* queries the backend once, makes the result the cache and returns it; the
\* cache is always the result of the last refresh (empty before the
\* first), whole, never a merge of two results.
C12_CacheIsResultOfLastRefresh ==
    /\ (StatsCallDone /\ ~StatsCall.refresh) =>
            /\ StatsCall.queries = 0
            /\ StatsCall.raised = ""
            /\ StatsCall.ret = <<stats>>
    /\ (StatsCallDone /\ StatsCall.refresh /\ StatsCall.raised = "") =>
            /\ StatsCall.queries = 1
            /\ Len(StatsCall.fetched) = 1
            /\ stats = StatsCall.fetched[1]
            /\ StatsCall.ret = StatsCall.fetched
    /\ stats = lastWrite
    /\ stats \in Whole

\* A refresh replaced the snapshot of an earlier refresh that had a key
\* more than the new one.
C12_Witness ==
    /\ StatsCallDone
    /\ StatsCall.refresh
    /\ StatsCall.raised = ""
    /\ StatsCall.ret = <<stats>>
    /\ \E r \in reads : Cardinality(r) > Cardinality(stats)
    /\ stats # pool

\* C19: a refresh whose backend query fails raises the error and leaves the
\* cache as it was; the cache changes in no step other than the assignment
\* of a get_volume_stats(refresh=True) call.
C19_OnlySuccessfulRefreshChangesCache ==
    [][/\ (StatsCall.pc = "update" /\ StatsCall'.raised # "") =>
            /\ stats' = stats
            /\ StatsCall'.raised = "FreeNASApiError"
            /\ StatsCall'.pc = "idle"
            /\ StatsCall'.ret = <<>>
       /\ stats' # stats =>
            /\ StatsCall.refresh
            /\ StatsCall.pc = "assign"
            /\ StatsCall.raised = ""
            /\ stats' = StatsCall.fetched[1]
            /\ last' = last
            /\ conn' = conn
      ]_vars

\* A refresh failed on a filled cache, on a backend the other entry points
\* have worked on.
C19_Witness ==
    /\ StatsCallDone
    /\ StatsCall.refresh
    /\ StatsCall.raised = "FreeNASApiError"
    /\ stats # EmptyStats
    /\ stats # pool
    /\ targets # {}
    /\ conn.check # ""

RefreshesFinished == \A t \in Threads : thr[t].refresh => thr[t].pc = "idle"

\* C17: however the calls of concurrent threads interleave, the cache and
\* every value returned are whole (the empty snapshot or the result of one
\* backend read), and once no refresh is under way the cache is the value
\* of the refresh that assigned last.
C17_NoTornSnapshotLastWriteWins ==
    /\ stats \in Whole
    /\ \A t \in Threads : thr[t].ret # <<>> => thr[t].ret[1] \in Whole
    /\ RefreshesFinished => stats = lastWrite

\* Two refreshes overlapped: both read the backend, with different results,
\* and the first returned what the second had assigned.
C17_Witness ==
    /\ \A t \in Threads : thr[t].called /\ thr[t].refresh /\ thr[t].pc = "idle"
                             /\ thr[t].raised = ""
    /\ thr[1].fetched # thr[2].fetched
    /\ thr[1].ret = thr[2].fetched
    /\ thr[2].ret = thr[2].fetched
    /\ Cardinality(thr[1].fetched[1]) > Cardinality(stats)

====
